---- MODULE Spec2Model ----
(***************************************************************************)
(* Model of src/timer.py: class Timer, a stopwatch used as a context       *)
(* manager around a zero-argument time source.                             *)
(*                                                                         *)
(* Time readings are integers counted in clock units (for the 100.0/100.5  *)
(* scenario one unit is half a second, so 100.0 is 200 and 100.5 is 201).  *)
(* The only arithmetic of the code is a subtraction and a multiplication   *)
(* by 1000, both modelled as written.                                      *)
(*                                                                         *)
(* The instance dictionary is a function whose DOMAIN is the set of        *)
(* attributes that have been assigned; reading an attribute outside the    *)
(* DOMAIN is Python's AttributeError.                                      *)
(***************************************************************************)
EXTENDS Integers, FiniteSets, Sequences, TLC

\* ------------------------------------------------------------------ bounds
MaxClock == 3
MaxStubReads == 2

\* --------------------------------------------------------- program values
MsPerSecond == 1000

None == [tag |-> "None", val |-> 0]
Num(n) == [tag |-> "float", val |-> n]
SelfRef == [tag |-> "self", val |-> 0]
AttributeError == [tag |-> "AttributeError", val |-> 0]
TypeError == [tag |-> "TypeError", val |-> 0]

IsNum(v) == v.tag = "float"
IsError(v) == v.tag \in {"AttributeError", "TypeError"}
Truthy(v) == \/ v.tag = "self"
             \/ (v.tag = "float" /\ v.val # 0)

Has(d, a) == a \in DOMAIN d
SetAttr(d, a, v) == [k \in (DOMAIN d) \cup {a} |-> IF k = a THEN v ELSE d[k]]
DelAttr(d, a) == [k \in (DOMAIN d) \ {a} |-> d[k]]
EmptyDict == [k \in {} |-> None]

VARIABLES
  arg,       \* the time source handed to the constructor
  timer,     \* self.timer, the bound time source
  inst,      \* the other instance attributes: start, end, elapsed_s, elapsed_ms
  now,       \* what default_timer() returns when read
  stubPos,   \* how many readings the caller's stub source has handed out
  mono,      \* the platform clock has never stepped backwards so far
  lastOp,    \* the last operation called on the Timer
  ret,       \* what it returned or raised
  reads,     \* how many times it read the bound time source
  lastRead,  \* the last reading it took from the bound time source
  exc,       \* the exc_type the last __exit__ was handed
  script,    \* 1 after "enter" alone, 2 after "enter; exit" alone, else 0 or 3
  prevLive,  \* live elapsed() results in the current scope: the one before last
  lastLive   \* ... and the last one

vars == <<arg, timer, inst, now, stubPos, mono, lastOp, ret, reads, lastRead,
          exc, script, prevLive, lastLive>>

\* ------------------------------------------------------------ time source
\* The n-th reading (from 0) of the caller's stub source: 100.0, 100.5, ...
StubReading(n) == 200 + n

\* self.timer(): one reading of the bound time source.
Reading(src) == IF src = "default_timer" THEN now ELSE StubReading(stubPos)
CanRead(src) == src = "default_timer" \/ stubPos < MaxStubReads

\* ----------------------------------------------------------------- methods
\* Every method maps the instance dictionary d and the reading r the bound
\* source would give now to the new dictionary, the result, and the number
\* of readings actually taken.
Outcome(d, v, n) == [d |-> d, ret |-> v, reads |-> n]

Timer_init(a) == "default_timer"

\* Variant: the direct call also restarts the stopwatch.
Timer_call_restarts(d, r) == Outcome(SetAttr(d, "start", Num(r)), Num(r), 1)

Timer_call(d, r) == Outcome(d, Num(r), 1)

\* Variant: entering also forgets the elapsed values of the previous run.
Timer_enter_clears(d, r) ==
  Outcome(SetAttr(SetAttr(DelAttr(DelAttr(d, "elapsed_s"), "elapsed_ms"),
                          "start", Num(r)), "end", None), SelfRef, 1)

Timer_enter(d, r) ==
  Outcome(SetAttr(SetAttr(d, "start", Num(r)), "end", None), SelfRef, 1)

\* Variant: the release step is skipped when the block raised.
Timer_exit_skips_on_error(d, r, e) ==
  IF e # "None" THEN Outcome(d, None, 0)
  ELSE LET d1 == SetAttr(d, "end", Num(r)) IN
       IF ~Has(d1, "start") THEN Outcome(d1, AttributeError, 1)
       ELSE LET d2 == SetAttr(d1, "elapsed_s", Num(d1["end"].val - d1["start"].val))
                d3 == SetAttr(d2, "elapsed_ms", Num(d2["elapsed_s"].val * MsPerSecond))
            IN  Outcome(d3, None, 1)

\* Variant: the subtraction has its operands swapped.
Timer_exit_swapped(d, r, e) ==
  LET d1 == SetAttr(d, "end", Num(r)) IN
  IF ~Has(d1, "start") THEN Outcome(d1, AttributeError, 1)
  ELSE LET d2 == SetAttr(d1, "elapsed_s", Num(d1["start"].val - d1["end"].val))
           d3 == SetAttr(d2, "elapsed_ms", Num(d2["elapsed_s"].val * MsPerSecond))
       IN  Outcome(d3, None, 1)

Timer_exit(d, r, e) ==
  LET d1 == SetAttr(d, "end", Num(r)) IN
  IF ~Has(d1, "start") THEN Outcome(d1, AttributeError, 1)
  ELSE LET d2 == SetAttr(d1, "elapsed_s", Num(d1["end"].val - d1["start"].val))
           d3 == SetAttr(d2, "elapsed_ms", Num(d2["elapsed_s"].val * MsPerSecond))
       IN  Outcome(d3, None, 1)

\* Variant: the query never looks at end and always measures live.
Timer_elapsed_always_live(d, r) ==
  IF ~Has(d, "end") \/ ~Has(d, "start") THEN Outcome(d, AttributeError, 0)
  ELSE Outcome(d, Num(r - d["start"].val), 1)

\* Variant: the live branch subtracts the wrong way round.
Timer_elapsed_swapped(d, r) ==
  IF ~Has(d, "end") THEN Outcome(d, AttributeError, 0)
  ELSE IF d["end"] = None
       THEN IF ~Has(d, "start") THEN Outcome(d, AttributeError, 1)
            ELSE Outcome(d, Num(d["start"].val - r), 1)
       ELSE IF ~Has(d, "start") THEN Outcome(d, AttributeError, 0)
            ELSE Outcome(d, Num(d["end"].val - d["start"].val), 0)

\* Variant: a Timer that was never entered answers 0 instead of failing.
Timer_elapsed_lenient(d, r) ==
  IF ~Has(d, "start") THEN Outcome(d, Num(0), 0)
  ELSE IF ~Has(d, "end") THEN Outcome(d, AttributeError, 0)
  ELSE IF d["end"] = None
       THEN Outcome(d, Num(r - d["start"].val), 1)
       ELSE Outcome(d, Num(d["end"].val - d["start"].val), 0)

Timer_elapsed(d, r) ==
  IF ~Has(d, "end") THEN Outcome(d, AttributeError, 0)
  ELSE IF d["end"] = None
       THEN IF ~Has(d, "start") THEN Outcome(d, AttributeError, 1)
            ELSE Outcome(d, Num(r - d["start"].val), 1)
       ELSE IF ~Has(d, "start") THEN Outcome(d, AttributeError, 0)
            ELSE Outcome(d, Num(d["end"].val - d["start"].val), 0)

\* Variant: the live branch of elapsed_ms stores its reading as end.
Timer_elapsed_ms_stores_end(d, r) ==
  IF ~Has(d, "end") THEN Outcome(d, AttributeError, 0)
  ELSE IF d["end"] = None
       THEN IF ~Has(d, "start") THEN Outcome(d, AttributeError, 1)
            ELSE Outcome(SetAttr(d, "end", Num(r)),
                         Num((r - d["start"].val) * MsPerSecond), 1)
       ELSE IF ~Has(d, "start") THEN Outcome(d, AttributeError, 0)
            ELSE Outcome(d, Num((d["end"].val - d["start"].val) * MsPerSecond), 0)

\* The body of the method elapsed_ms of the class.
Timer_elapsed_ms(d, r) ==
  IF ~Has(d, "end") THEN Outcome(d, AttributeError, 0)
  ELSE IF d["end"] = None
       THEN IF ~Has(d, "start") THEN Outcome(d, AttributeError, 1)
            ELSE Outcome(d, Num((r - d["start"].val) * MsPerSecond), 1)
       ELSE IF ~Has(d, "start") THEN Outcome(d, AttributeError, 0)
            ELSE Outcome(d, Num((d["end"].val - d["start"].val) * MsPerSecond), 0)

\* t.elapsed_ms(): attribute lookup finds the instance attribute before the
\* method of the class; a float is not callable.
Call_elapsed_ms(d, r) ==
  IF Has(d, "elapsed_ms") THEN Outcome(d, TypeError, 0)
  ELSE Timer_elapsed_ms(d, r)

\* ------------------------------------------------------------------- Init
Init ==
  /\ arg \in {"default_timer", "stub"}
  /\ timer = Timer_init(arg)
  /\ inst = EmptyDict
  /\ now \in 0..MaxClock
  /\ stubPos = 0
  /\ mono = TRUE
  /\ lastOp = "init"
  /\ ret = None
  /\ reads = 0
  /\ lastRead = 0
  /\ exc = "None"
  /\ script = 0
  /\ prevLive = None
  /\ lastLive = None

\* ---------------------------------------------------------------- actions
\* The common part of every method call: o is the method's outcome.
Apply(op, o) ==
  /\ CanRead(timer)
  /\ inst' = o.d
  /\ ret' = o.ret
  /\ reads' = o.reads
  /\ lastOp' = op
  /\ script' = IF script = 0 /\ op = "enter" THEN 1
               ELSE IF script = 1 /\ op = "exit" THEN 2 ELSE 3
  /\ lastRead' = IF o.reads > 0 THEN Reading(timer) ELSE lastRead
  /\ stubPos' = IF o.reads > 0 /\ timer # "default_timer"
                THEN stubPos + 1 ELSE stubPos
  /\ UNCHANGED <<arg, timer, now, mono>>

\* The platform clock moves (backwards too: time.time can be adjusted).
Tick ==
  /\ \E t \in 0..MaxClock :
       /\ t # now
       /\ now' = t
       /\ mono' = (mono /\ t >= now)
  /\ UNCHANGED <<arg, timer, inst, stubPos, lastOp, ret, reads, lastRead,
                 exc, script, prevLive, lastLive>>

Call ==
  /\ Apply("call", Timer_call(inst, Reading(timer)))
  /\ UNCHANGED <<exc, prevLive, lastLive>>

Enter ==
  /\ Apply("enter", Timer_enter(inst, Reading(timer)))
  /\ prevLive' = None
  /\ lastLive' = None
  /\ UNCHANGED exc

Exit ==
  \E e \in {"None", "Error"} :
    /\ Apply("exit", Timer_exit(inst, Reading(timer), e))
    /\ exc' = e
    /\ UNCHANGED <<prevLive, lastLive>>

Elapsed ==
  LET o == Timer_elapsed(inst, Reading(timer)) IN
  /\ Apply("elapsed", o)
  /\ IF o.reads > 0 /\ IsNum(o.ret)
     THEN prevLive' = lastLive /\ lastLive' = o.ret
     ELSE UNCHANGED <<prevLive, lastLive>>
  /\ UNCHANGED exc

ElapsedMs ==
  /\ Apply("elapsed_ms", Call_elapsed_ms(inst, Reading(timer)))
  /\ UNCHANGED <<exc, prevLive, lastLive>>

Next == Tick \/ Call \/ Enter \/ Exit \/ Elapsed \/ ElapsedMs

Spec == Init /\ [][Next]_vars


\* ------------------------------------------------------------ properties
Started == Has(inst, "start")
Running == Has(inst, "end") /\ inst["end"] = None
Finished == Started /\ Has(inst, "end") /\ IsNum(inst["end"])
Stored == Has(inst, "elapsed_s") /\ Has(inst, "elapsed_ms")

\* A step that is a call of method op (the clock stands still during a call).
MethodStep(op) == lastOp' = op /\ now' = now

\* The bound time source has never stepped backwards.
SourceMonotone == timer = "default_timer" => mono

\* C1: a Timer constructed with the stub source 100.0, 100.5 and then entered
\* and exited at once has start 100.0, end 100.5, elapsed seconds 0.5 and
\* elapsed milliseconds 500.0: every reading comes from the supplied source.
C1_StubScenario ==
  (arg = "stub" /\ script = 2) =>
    /\ timer = "stub"
    /\ Finished /\ Stored
    /\ inst["start"] = Num(StubReading(0))
    /\ inst["end"] = Num(StubReading(1))
    /\ inst["elapsed_s"] = Num(1)
    /\ inst["elapsed_ms"] = Num(MsPerSecond)

\* C2: for a scope that was entered, exit takes one reading, stores it as end
\* and stores the elapsed seconds and milliseconds, the same way whether the
\* block raised or not, and what it returns never suppresses the block's error.
C2_ExitReleasesAlike ==
  (lastOp = "exit" /\ Started) =>
    /\ reads = 1
    /\ Finished /\ Stored
    /\ inst["end"] = Num(lastRead)
    /\ inst["elapsed_s"] = Num(lastRead - inst["start"].val)
    /\ inst["elapsed_ms"] = Num((lastRead - inst["start"].val) * MsPerSecond)
    /\ ~IsError(ret)
    /\ ~Truthy(ret)

C2_Witness ==
  /\ lastOp = "exit" /\ Started /\ exc = "Error"
  /\ Stored /\ inst["elapsed_s"].val > 0

\* C3: after exit, the elapsed-seconds query returns end - start, without
\* reading the time source, however far the source has advanced since.
C3_FixedAfterExit ==
  (lastOp = "elapsed" /\ Finished) =>
    /\ ret = Num(inst["end"].val - inst["start"].val)
    /\ reads = 0

\* start 0, one live query answering 1, end 2, the clock now at 3: still 2.
C3_Witness ==
  /\ lastOp = "elapsed" /\ Finished
  /\ inst["start"] = Num(0) /\ inst["end"] = Num(2)
  /\ lastLive = Num(1)
  /\ now = 3
  /\ ret = Num(2)

\* C4: while the scope is open, an elapsed-seconds query reads the time
\* source once and returns that reading minus start; it changes neither
\* start nor end; with a source that never steps back, its value is not
\* below that of the query before it in the same scope.
C4_LiveQuery ==
  [][(Running /\ MethodStep("elapsed")) =>
       /\ reads' = 1
       /\ lastRead' = Reading(timer)
       /\ ret' = Num(lastRead' - inst["start"].val)
       /\ inst' = inst
       /\ (SourceMonotone /\ IsNum(lastLive)) => ret'.val >= lastLive.val]_vars

C4_Witness ==
  /\ lastOp = "elapsed" /\ Running /\ mono
  /\ IsNum(prevLive) /\ lastLive = ret
  /\ ret.val > prevLive.val

\* C5: whenever start is set, open scope or exited, the elapsed-milliseconds
\* query can be called and returns 1000 times what the elapsed-seconds query
\* returns for the same reading.
C5_MsQueryCallable ==
  (lastOp = "elapsed_ms" /\ Started) =>
    /\ IsNum(ret)
    /\ ret.val = MsPerSecond * Timer_elapsed(inst, lastRead).ret.val

\* C6: on a Timer that was never entered, the elapsed-seconds and the
\* elapsed-milliseconds query fail with an error, read nothing and leave the
\* instance as it was (start stays unset, and so does end if it was).
C6_QueryBeforeEnterFails ==
  [][(~Started /\ (MethodStep("elapsed") \/ MethodStep("elapsed_ms"))) =>
       /\ IsError(ret')
       /\ reads' = 0
       /\ inst' = inst]_vars

C6_Witness ==
  /\ lastOp = "elapsed" /\ inst = EmptyDict /\ ret = AttributeError

\* C7: in every state, calling the Timer returns the current reading of the
\* bound time source and changes no attribute of the instance.
C7_CallIsPure ==
  [][MethodStep("call") =>
       /\ ret' = Num(Reading(timer))
       /\ inst' = inst]_vars

C7_Witness ==
  /\ lastOp = "call" /\ Finished /\ Stored
  /\ ret.val > inst["end"].val

\* C8: whenever start and end are both set, the stored elapsed seconds is
\* end - start and the stored elapsed milliseconds is 1000 times it; with a
\* time source that never steps back the stored elapsed seconds is >= 0.
C8_StoredElapsed ==
  Finished =>
    /\ Stored
    /\ inst["elapsed_s"] = Num(inst["end"].val - inst["start"].val)
    /\ inst["elapsed_ms"] = Num(inst["elapsed_s"].val * MsPerSecond)
    /\ SourceMonotone => inst["elapsed_s"].val >= 0

C8_Witness ==
  /\ Finished /\ Stored /\ mono
  /\ inst["elapsed_s"].val = 2
  /\ inst["elapsed_ms"].val = 2 * MsPerSecond

\* C9 as claimed: once end is set, no later operation changes it.
C9_EndNeverMutated ==
  [][Finished => (Has(inst', "end") /\ inst'["end"] = inst["end"])]_vars

\* C9 as amended: only exit sets end to a reading and only enter resets it to
\* unset; the direct call, the elapsed queries and the clock leave it alone.
C9_EndChangedOnlyByEnterExit ==
  [][/\ Has(inst, "end") => Has(inst', "end")
     /\ (Has(inst', "end") /\ (~Has(inst, "end") \/ inst'["end"] # inst["end"])) =>
          \/ MethodStep("exit") /\ inst'["end"] = Num(lastRead')
          \/ MethodStep("enter") /\ inst'["end"] = None]_vars

\* entered again after an exit: end, which was set, is unset again
C9_Witness ==
  /\ lastOp = "enter" /\ Running /\ Stored

\* C10: entering a Timer that has been exited sets start and resets end but
\* keeps the stored elapsed seconds and milliseconds, and nothing but the
\* next exit changes them: in the second scope they are the previous run's.
C10_StaleElapsed ==
  [][Stored =>
       /\ MethodStep("enter") =>
            /\ inst'["start"] = Num(lastRead')
            /\ inst'["end"] = None
       /\ ~MethodStep("exit") =>
            /\ Has(inst', "elapsed_s") /\ Has(inst', "elapsed_ms")
            /\ inst'["elapsed_s"] = inst["elapsed_s"]
            /\ inst'["elapsed_ms"] = inst["elapsed_ms"]]_vars

\* in the second scope the live elapsed time and the stored one differ
C10_Witness ==
  /\ lastOp = "elapsed" /\ Running /\ Stored
  /\ IsNum(ret) /\ ret.val # inst["elapsed_s"].val

====
